---- MODULE Spec2Model ----
(***************************************************************************)
(* listcontents.py: a recursive directory lister that prints the contents  *)
(* of the files that pass an include/exclude/.gitignore/extension filter.  *)
(*                                                                         *)
(* Strings are sequences of one-character strings, so that startswith,     *)
(* substring search, separator counting and fnmatch are computed on the    *)
(* characters exactly as the Python code computes them.  The platform is   *)
(* POSIX: os.sep is "/", os.path.normcase is the identity.                 *)
(***************************************************************************)
EXTENDS Integers, Sequences, FiniteSets, TLC

\* ------------------------------------------------------------------ str
sep == "/"

StartsWith(s, p) ==
    /\ Len(p) <= Len(s)
    /\ SubSeq(s, 1, Len(p)) = p

EndsWith(s, p) ==
    /\ Len(p) <= Len(s)
    /\ SubSeq(s, Len(s) - Len(p) + 1, Len(s)) = p

\* Python's `p in s` on strings.
Contains(s, p) ==
    \E i \in 1..(Len(s) - Len(p) + 1) :
        /\ p = <<>> \/ s[i] = p[1]
        /\ SubSeq(s, i, i + Len(p) - 1) = p

\* str.count of a one-character string.
Count(s, c) == Len(SelectSeq(s, LAMBDA ch : ch = c))

\* str.rstrip("/")
RECURSIVE RStrip(_)
RStrip(s) ==
    IF s # <<>> /\ s[Len(s)] = sep THEN RStrip(SubSeq(s, 1, Len(s) - 1)) ELSE s

\* str.replace(os.sep, "/"): os.sep is "/" on POSIX, every character maps to itself.
ReplaceSep(s) == IF sep = "/" THEN s ELSE [i \in 1..Len(s) |-> IF s[i] = sep THEN "/" ELSE s[i]]

UpperToLower ==
    [c \in {"A","B","C","D","E","F","G","H","I","J","K","L","M",
            "N","O","P","Q","R","S","T","U","V","W","X","Y","Z"} |->
        CASE c = "A" -> "a" [] c = "B" -> "b" [] c = "C" -> "c" [] c = "D" -> "d"
          [] c = "E" -> "e" [] c = "F" -> "f" [] c = "G" -> "g" [] c = "H" -> "h"
          [] c = "I" -> "i" [] c = "J" -> "j" [] c = "K" -> "k" [] c = "L" -> "l"
          [] c = "M" -> "m" [] c = "N" -> "n" [] c = "O" -> "o" [] c = "P" -> "p"
          [] c = "Q" -> "q" [] c = "R" -> "r" [] c = "S" -> "s" [] c = "T" -> "t"
          [] c = "U" -> "u" [] c = "V" -> "v" [] c = "W" -> "w" [] c = "X" -> "x"
          [] c = "Y" -> "y" [] c = "Z" -> "z"]

\* str.lower()
Lower(s) == [i \in 1..Len(s) |-> IF s[i] \in DOMAIN UpperToLower THEN UpperToLower[s[i]] ELSE s[i]]

\* index of the last occurrence of character c in s[1..i], 0 when there is none
RECURSIVE RFindFrom(_, _, _)
RFindFrom(s, c, i) ==
    IF i = 0 THEN 0 ELSE IF s[i] = c THEN i ELSE RFindFrom(s, c, i - 1)

\* str.rfind(c) + 1
RFind(s, c) == RFindFrom(s, c, Len(s))

\* index of the first separator of s at or after i, 0 when there is none
RECURSIVE FindSep(_, _)
FindSep(s, i) ==
    IF i > Len(s) THEN 0 ELSE IF s[i] = sep THEN i ELSE FindSep(s, i + 1)

\* str.split("/")
RECURSIVE Split(_)
Split(s) ==
    LET i == FindSep(s, 1)
    IN IF i = 0 THEN <<s>>
       ELSE <<SubSeq(s, 1, i - 1)>> \o Split(SubSeq(s, i + 1, Len(s)))

\* "/".join(parts)
RECURSIVE JoinParts(_)
JoinParts(parts) ==
    IF parts = <<>> THEN <<>>
    ELSE IF Len(parts) = 1 THEN parts[1]
    ELSE parts[1] \o <<sep>> \o JoinParts(Tail(parts))

\* ------------------------------------------------------------- os.path
\* os.path.join(a, b)
join(a, b) ==
    IF StartsWith(b, <<sep>>) THEN b
    ELSE IF a = <<>> \/ EndsWith(a, <<sep>>) THEN a \o b
    ELSE a \o <<sep>> \o b

isabs(p) == StartsWith(p, <<sep>>)

\* os.path.basename(p): what follows the last separator
basename(p) == SubSeq(p, RFind(p, sep) + 1, Len(p))

\* os.path.dirname(p): what precedes the last separator, trailing separators
\* stripped unless it consists of separators only
dirname(p) ==
    LET head == SubSeq(p, 1, RFind(p, sep))
    IN IF head # <<>> /\ Count(head, sep) # Len(head) THEN RStrip(head) ELSE head

\* os.path.splitext(p)[1]: from the last dot of the last component, unless
\* that dot is among the component's leading dots
splitext_ext(p) ==
    LET sepIndex == RFind(p, sep)
        dotIndex == RFind(p, ".")
        lead     == {i \in (sepIndex + 1)..Len(p) : \A j \in (sepIndex + 1)..i : p[j] = "."}
    IN IF dotIndex > sepIndex /\ dotIndex \notin lead
       THEN SubSeq(p, dotIndex, Len(p))
       ELSE <<>>

\* the components posixpath.normpath keeps: empty and "." dropped, ".." resolved
RECURSIVE NormComps(_, _, _)
NormComps(comps, acc, absolute) ==
    IF comps = <<>> THEN acc
    ELSE LET c == Head(comps)
         IN IF c = <<>> \/ c = <<".">> THEN NormComps(Tail(comps), acc, absolute)
            ELSE IF c = <<".", ".">>
                 THEN IF acc # <<>> /\ acc[Len(acc)] # <<".", ".">>
                      THEN NormComps(Tail(comps), SubSeq(acc, 1, Len(acc) - 1), absolute)
                      ELSE IF acc = <<>> /\ absolute
                           THEN NormComps(Tail(comps), acc, absolute)
                           ELSE NormComps(Tail(comps), Append(acc, c), absolute)
            ELSE NormComps(Tail(comps), Append(acc, c), absolute)

\* os.path.normpath(p) (a path starting with exactly two slashes keeps both in
\* Python; the model's paths start with at most one)
normpath(p) ==
    IF p = <<>> THEN <<".">>
    ELSE LET comps == NormComps(Split(p), <<>>, isabs(p))
             body  == JoinParts(comps)
         IN IF isabs(p) THEN <<sep>> \o body
            ELSE IF body = <<>> THEN <<".">> ELSE body

\* os.path.abspath(p) in a process whose working directory is cwd
abspath(p, cwd) == IF isabs(p) THEN normpath(p) ELSE normpath(join(cwd, p))

\* the non-empty components of an absolute, normalised path
Comps(p) == SelectSeq(Split(p), LAMBDA c : c # <<>>)

\* length of the longest common prefix of two component lists
RECURSIVE CommonLen(_, _)
CommonLen(a, b) ==
    IF a = <<>> \/ b = <<>> \/ Head(a) # Head(b) THEN 0
    ELSE 1 + CommonLen(Tail(a), Tail(b))

\* os.path.relpath(path, start) in a process whose working directory is cwd
relpath(path, start, cwd) ==
    LET start_list == Comps(abspath(start, cwd))
        path_list  == Comps(abspath(path, cwd))
        i          == CommonLen(start_list, path_list)
        rel_list   == [k \in 1..(Len(start_list) - i) |-> <<".", ".">>]
                        \o SubSeq(path_list, i + 1, Len(path_list))
    IN IF rel_list = <<>> THEN <<".">> ELSE JoinParts(rel_list)

\* os.path.commonpath([a, b]) of two absolute paths
commonpath(a, b) ==
    LET ca == SelectSeq(Split(a), LAMBDA c : c # <<>> /\ c # <<".">>)
        cb == SelectSeq(Split(b), LAMBDA c : c # <<>> /\ c # <<".">>)
    IN <<sep>> \o JoinParts(SubSeq(ca, 1, CommonLen(ca, cb)))

\* ------------------------------------------------------------- fnmatch
\* fnmatch.fnmatch(name, pat) on POSIX: the whole name must match; "*" matches
\* any run of characters (separators included), "?" any one character, every
\* other character itself.  Bracket classes are not modelled: no pattern of
\* the model contains "[".
RECURSIVE FnMatchAt(_, _, _, _)
FnMatchAt(name, i, pat, j) ==
    IF j > Len(pat) THEN i > Len(name)
    ELSE IF pat[j] = "*"
         THEN FnMatchAt(name, i, pat, j + 1) \/ (i <= Len(name) /\ FnMatchAt(name, i + 1, pat, j))
    ELSE IF pat[j] = "?"
         THEN i <= Len(name) /\ FnMatchAt(name, i + 1, pat, j + 1)
    ELSE i <= Len(name) /\ name[i] = pat[j] /\ FnMatchAt(name, i + 1, pat, j + 1)

fnmatch(name, pat) == FnMatchAt(name, 1, pat, 1)

\* the characters of the model's names, in code-point order
CodePoints ==
    <<"*", "-", ".", "/", "0", "1", "2", "?",
      "A","B","C","D","E","F","G","H","I","J","K","L","M",
      "N","O","P","Q","R","S","T","U","V","W","X","Y","Z", "_",
      "a","b","c","d","e","f","g","h","i","j","k","l","m",
      "n","o","p","q","r","s","t","u","v","w","x","y","z">>

Ord(c) == CHOOSE i \in 1..Len(CodePoints) : CodePoints[i] = c

\* a < b in Python's string order
RECURSIVE StrLess(_, _)
StrLess(a, b) ==
    IF b = <<>> THEN FALSE
    ELSE IF a = <<>> THEN TRUE
    ELSE IF Head(a) = Head(b) THEN StrLess(Tail(a), Tail(b))
    ELSE Ord(Head(a)) < Ord(Head(b))

\* sorted(names) for a list of distinct names
RECURSIVE sorted(_)
sorted(names) ==
    IF names = <<>> THEN <<>>
    ELSE LET least == CHOOSE i \in 1..Len(names) :
                         \A j \in 1..Len(names) : j = i \/ StrLess(names[i], names[j])
         IN <<names[least]>> \o
            sorted(SubSeq(names, 1, least - 1) \o SubSeq(names, least + 1, Len(names)))

\* ------------------------------------------------------- path filters
\* is_pdf_file
is_pdf_file(file_path) == EndsWith(Lower(file_path), <<".", "p", "d", "f">>)

\* one pattern of is_excluded's loop
ExcludedBy(norm_path, pattern) ==
    LET norm_pattern == ReplaceSep(pattern)
    IN IF EndsWith(norm_pattern, <<"/">>)
       THEN LET pattern_name == RStrip(norm_pattern)
            IN \/ StartsWith(norm_path, norm_pattern)
               \/ Contains(norm_path, <<"/">> \o pattern_name \o <<"/">>)
               \/ EndsWith(norm_path, <<"/">> \o pattern_name)
       ELSE LET filename == basename(norm_path)
            IN \/ norm_path = norm_pattern
               \/ Contains(norm_path, <<"/">> \o norm_pattern)
               \/ filename = norm_pattern
               \/ fnmatch(filename, norm_pattern)
               \/ fnmatch(norm_path, norm_pattern)

\* is_excluded(path, exclude_patterns); None and [] are both the empty list
is_excluded(path, exclude_patterns) ==
    /\ exclude_patterns # <<>>
    /\ \E k \in 1..Len(exclude_patterns) : ExcludedBy(ReplaceSep(path), exclude_patterns[k])

\* one pattern of is_included's loop
IncludedBy(rel_path, pattern) ==
    LET norm_pattern == ReplaceSep(pattern)
    IN IF EndsWith(norm_pattern, <<"/">>)
       THEN StartsWith(rel_path, norm_pattern)
       ELSE \/ fnmatch(rel_path, norm_pattern)
            \/ fnmatch(basename(rel_path), norm_pattern)
            \/ rel_path = norm_pattern
            \/ StartsWith(rel_path, norm_pattern \o <<"/">>)

\* is_included(path, include_patterns, base_dir), in a process whose working
\* directory is cwd
is_included(path, include_patterns, base_dir, cwd) ==
    /\ include_patterns # <<>>
    /\ LET rel_path == ReplaceSep(relpath(path, base_dir, cwd))
       IN \E k \in 1..Len(include_patterns) : IncludedBy(rel_path, include_patterns[k])

\* ---------------------------------------------------------------- names
s_src == <<"s","r","c">>
s_lib == <<"l","i","b">>
s_build == <<"b","u","i","l","d">>
s_node_modules == <<"n","o","d","e","_","m","o","d","u","l","e","s">>
s_priv == <<"p","r","i","v">>
s_dot_h == <<".","h">>
s_yarn_dot_lock == <<"y","a","r","n",".","l","o","c","k">>
s_app_dot_js == <<"a","p","p",".","j","s">>
s_doc_dot_pdf == <<"d","o","c",".","p","d","f">>
s_dot_env == <<".","e","n","v">>
s_gone_dot_txt == <<"g","o","n","e",".","t","x","t">>
s_secret_dot_txt == <<"s","e","c","r","e","t",".","t","x","t">>
s_sub == <<"s","u","b">>
s_b_dot_txt == <<"b",".","t","x","t">>
s_a_dot_py == <<"a",".","p","y">>
s_src_sl_sub == <<"s","r","c","/","s","u","b">>
s_d_dot_py == <<"d",".","p","y">>
s_img_dot_bin == <<"i","m","g",".","b","i","n">>
s_e_dot_txt == <<"e",".","t","x","t">>
s_c_dot_py == <<"c",".","p","y">>
s_out_dot_txt == <<"o","u","t",".","t","x","t">>
s_k == <<"k">>
s_node_modules_sl_k == <<"n","o","d","e","_","m","o","d","u","l","e","s","/","k">>
s_i_dot_js == <<"i",".","j","s">>
s_z_dot_txt == <<"z",".","t","x","t">>
s_h_dot_py == <<"h",".","p","y">>
s_sl_w == <<"/","w">>
s_sl_w_sl_p == <<"/","w","/","p">>
s_p == <<"p">>
s_p_sl == <<"p","/">>
s_sl_w_sl_node_modules_sl_p == <<"/","w","/","n","o","d","e","_","m","o","d","u","l","e","s","/","p">>
s_build_sl == <<"b","u","i","l","d","/">>
s_star_dot_txt == <<"*",".","t","x","t">>
s_src_sl_star_dot_py == <<"s","r","c","/","*",".","p","y">>
s_star_dot_py == <<"*",".","p","y">>
s_node_modules_sl == <<"n","o","d","e","_","m","o","d","u","l","e","s","/">>
s_package_lock_dot_json == <<"p","a","c","k","a","g","e","-","l","o","c","k",".","j","s","o","n">>
s_pnpm_lock_dot_yaml == <<"p","n","p","m","-","l","o","c","k",".","y","a","m","l">>
s_PY == <<"P","Y">>
s_dot_pdf == <<".","p","d","f">>
s_dot_git == <<".", "g", "i", "t">>
s_src_sl_b_dot_txt == s_src \o <<sep>> \o s_b_dot_txt
s_src_sl_sub_sl_d_dot_py == s_src_sl_sub \o <<sep>> \o s_d_dot_py
s_lib_sl_img_dot_bin == s_lib \o <<sep>> \o s_img_dot_bin
s_lib_sl_e_dot_txt == s_lib \o <<sep>> \o s_e_dot_txt

\* ---------------------------------------------------------- file system
\* The scanned tree.  Each directory lists its entries in the order scandir
\* returns them; path is relative to the tree's root (empty for the root).
\* priv cannot be listed (scandir raises PermissionError).
Tree ==
    <<
       [path |-> <<>>, dirs |-> <<s_src, s_lib, s_build, s_node_modules, s_priv, s_dot_h>>,
        files |-> <<s_yarn_dot_lock, s_app_dot_js, s_doc_dot_pdf, s_dot_env, s_gone_dot_txt, s_secret_dot_txt>>,
        listable |-> TRUE],
       [path |-> s_src, dirs |-> <<s_sub>>, files |-> <<s_b_dot_txt, s_a_dot_py>>, listable |-> TRUE],
       [path |-> s_src_sl_sub, dirs |-> <<>>, files |-> <<s_d_dot_py>>, listable |-> TRUE],
       [path |-> s_lib, dirs |-> <<>>, files |-> <<s_img_dot_bin, s_e_dot_txt, s_c_dot_py>>, listable |-> TRUE],
       [path |-> s_build, dirs |-> <<>>, files |-> <<s_out_dot_txt>>, listable |-> TRUE],
       [path |-> s_node_modules, dirs |-> <<s_k>>, files |-> <<>>, listable |-> TRUE],
       [path |-> s_node_modules_sl_k, dirs |-> <<>>, files |-> <<s_i_dot_js>>, listable |-> TRUE],
       [path |-> s_priv, dirs |-> <<>>, files |-> <<s_z_dot_txt>>, listable |-> FALSE],
       [path |-> s_dot_h, dirs |-> <<>>, files |-> <<s_h_dot_py>>, listable |-> TRUE]
    >>

\* is_binary_file reads this many bytes
ChunkSize == 1024

\* What the file system holds for a file: whether the name resolves
\* (gone.txt is a dangling symbolic link), whether it may be read, the byte
\* offsets of its zero bytes, whether its bytes are valid UTF-8, and whether
\* its text can be encoded for standard output.
PlainFile == [exists |-> TRUE, readable |-> TRUE, nul |-> {}, utf8 |-> TRUE, encodable |-> TRUE]

FileAttr(rel) ==
    CASE rel = s_gone_dot_txt           -> [PlainFile EXCEPT !.exists = FALSE]
      [] rel = s_secret_dot_txt         -> [PlainFile EXCEPT !.readable = FALSE]
      [] rel = s_doc_dot_pdf            -> [PlainFile EXCEPT !.nul = {9}, !.utf8 = FALSE]
      [] rel = s_lib_sl_img_dot_bin     -> [PlainFile EXCEPT !.nul = {0, ChunkSize}, !.utf8 = FALSE]
      [] rel = s_src_sl_sub_sl_d_dot_py -> [PlainFile EXCEPT !.nul = {ChunkSize}]
      [] rel = s_src_sl_b_dot_txt       -> [PlainFile EXCEPT !.utf8 = FALSE]
      [] rel = s_lib_sl_e_dot_txt       -> [PlainFile EXCEPT !.encodable = FALSE]
      [] OTHER                          -> PlainFile

VARIABLES
    argv,               \* the command line as the user gave it
    args,               \* the argparse namespace main works on
    env,                \* the process's environment: cwd, the tree's place, PATH, .git and .gitignore
    pc,                 \* where main is: "start", "walk", "files", "done"
    extensions,         \* main's normalised extension list
    git_root,           \* main's git_root, <<>> for None
    gitignore_matchers, \* main's list of (base_dir, matcher)
    stack,              \* os.walk's stack of directories still to list
    root,               \* the directory whose files main is processing
    files,              \* the files of root main has not handled yet, sorted
    output,             \* the blocks printed on standard output
    visited,            \* the directories safe_walk has yielded from its loop
    walk_failed,        \* safe_walk's except handler has run
    rc,                 \* main's return value, <<>> until it returns
    current_path,       \* find_git_root's loop variable
    earlier             \* the files an earlier run on the same tree printed, <<>> if none

vars == <<argv, args, env, pc, extensions, git_root, gitignore_matchers, stack, root,
          files, output, visited, walk_failed, rc, current_path, earlier>>

\* the absolute path the operating system resolves a path to
Resolve(path) == abspath(path, env.cwd)

InTree(abs) == abs = env.loc \/ StartsWith(abs, env.loc \o <<sep>>)

RelIn(abs) == IF abs = env.loc THEN <<>> ELSE SubSeq(abs, Len(env.loc) + 2, Len(abs))

IsDir(path) ==
    /\ InTree(Resolve(path))
    /\ \E i \in 1..Len(Tree) : Tree[i].path = RelIn(Resolve(path))

DirEntry(path) == Tree[CHOOSE i \in 1..Len(Tree) : Tree[i].path = RelIn(Resolve(path))]

\* os.scandir(path) succeeds
Listable(path) == IsDir(path) /\ DirEntry(path).listable

Attr(file_path) == FileAttr(RelIn(Resolve(file_path)))

\* ------------------------------------------------------------- helpers
\* find_git_root: climb from the absolute start path until a directory holds .git
RECURSIVE FindGitRootFrom(_)
FindGitRootFrom(path) ==
    IF path \in env.git THEN <<path>>
    ELSE LET parent_path == dirname(path)
         IN IF parent_path = path THEN <<>>
            ELSE FindGitRootFrom(parent_path)

find_git_root(start_path) == FindGitRootFrom(Resolve(start_path))

\* path lies in the directory tree below (or is) directory d
Under(path, d) == commonpath(path, d) = d

\* find_all_gitignore_files: the .gitignore files os.walk meets from the git
\* root, or from the start directory when there is none, .git directories skipped
find_all_gitignore_files(directory) ==
    LET found           == find_git_root(directory)
        start_walk_path == IF found # <<>> THEN found[1] ELSE Resolve(directory)
    IN SelectSeq(env.ignore,
                 LAMBDA g : /\ Under(g.base, start_walk_path)
                            /\ ~ \E c \in 1..Len(Comps(g.base)) : Comps(g.base)[c] = s_dot_git)

\* create_gitignore_matchers: one (base_dir, matcher) per file that parses
create_gitignore_matchers(gitignore_files) ==
    SelectSeq(gitignore_files, LAMBDA g : g.parses)

\* matcher(path): the compiled rules say ignored, not ignored, or raise
MatcherCall(m, path) ==
    IF path \in m.raises THEN "raise"
    ELSE IF path \in m.flagged THEN "true" ELSE "false"

\* the matcher loops of safe_walk (lines 492-501) and should_process_file
\* (lines 347-357): the first in-scope matcher that flags the path or raises
\* ends the loop
RECURSIVE IgnoreLoop(_, _)
IgnoreLoop(matchers, abs_path) ==
    IF matchers = <<>> THEN "false"
    ELSE LET m                    == Head(matchers)
             abs_matcher_base_dir == Resolve(m.base)
         IN IF commonpath(abs_path, abs_matcher_base_dir) = abs_matcher_base_dir
               /\ MatcherCall(m, abs_path) # "false"
            THEN MatcherCall(m, abs_path)
            ELSE IgnoreLoop(Tail(matchers), abs_path)

\* is_binary_file looking at the first byte only
is_binary_file_first_byte(file_path) ==
    LET a == Attr(file_path)
    IN IF ~a.exists \/ ~a.readable THEN TRUE
       ELSE 0 \in a.nul

\* is_binary_file: a zero byte among the first ChunkSize bytes, or the file
\* cannot be opened
is_binary_file(file_path) ==
    LET a == Attr(file_path)
    IN IF ~a.exists \/ ~a.readable THEN TRUE
       ELSE \E offset \in a.nul : offset < ChunkSize

\* should_process_file without its include-mode branch
should_process_file_no_include(file_path, base_dir, exts, exclude_patterns, include_patterns, matchers, allow_ignored, parse_pdf) ==
    LET ignored  == IF ~allow_ignored /\ matchers # <<>>
                    THEN IgnoreLoop(matchers, Resolve(file_path))
                    ELSE "false"
        file_ext == Lower(splitext_ext(file_path))
    IN /\ ~is_excluded(file_path, exclude_patterns)
       /\ ignored = "false"
       /\ \/ parse_pdf /\ file_ext = s_dot_pdf
          \/ exts = <<>>
          \/ \E k \in 1..Len(exts) : exts[k] = file_ext

\* should_process_file; an exception inside it is caught and gives False
should_process_file(file_path, base_dir, exts, exclude_patterns, include_patterns, matchers, allow_ignored, parse_pdf) ==
    LET pattern_ok == IF include_patterns # <<>>
                      THEN is_included(file_path, include_patterns, base_dir, env.cwd)
                      ELSE ~is_excluded(file_path, exclude_patterns)
        ignored    == IF ~allow_ignored /\ matchers # <<>>
                      THEN IgnoreLoop(matchers, Resolve(file_path))
                      ELSE "false"
        file_ext   == Lower(splitext_ext(file_path))
    IN /\ pattern_ok
       /\ ignored = "false"
       /\ \/ parse_pdf /\ file_ext = s_dot_pdf
          \/ exts = <<>>
          \/ \E k \in 1..Len(exts) : exts[k] = file_ext

\* ------------------------------------------------------------- output
Header(path)      == [t |-> "header", v |-> path]
Placeholder(text) == [t |-> "placeholder", v |-> <<text>>]
Content(kind)     == [t |-> kind, v |-> <<>>]
Blank             == [t |-> "blank", v |-> <<>>]

\* process_file: the lines it prints
process_file(file_path, base_dir, parse_pdf) ==
    LET a        == Attr(file_path)
        rel_path == relpath(file_path, base_dir, env.cwd)
    IN IF ~a.exists
       THEN <<Header(file_path), Placeholder("<File not found>"), Blank>>
       ELSE IF ~a.readable
       THEN <<Header(file_path), Placeholder("<Permission denied>"), Blank>>
       ELSE IF parse_pdf /\ is_pdf_file(file_path)
       THEN <<Header(rel_path), Content("pdf"), Blank>>
       ELSE IF is_binary_file(file_path)
       THEN <<Header(rel_path), Placeholder("<Binary file>"), Blank>>
       ELSE IF ~a.utf8
       THEN <<Header(rel_path), Placeholder("<File contains invalid Unicode characters>"), Blank>>
       ELSE IF ~a.encodable
       THEN <<Header(rel_path), Header(file_path), Placeholder("<Error processing file>"), Blank>>
       ELSE <<Header(rel_path), Content("text"), Blank>>

\* ------------------------------------------------------------- safe_walk
\* lines 465-486: the include/exclude decision for one child directory
KeepDir(dir_path, top, exclude_patterns, include_patterns) ==
    IF include_patterns # <<>>
    THEN LET rel_dir_path == ReplaceSep(relpath(dir_path, top, env.cwd))
         IN \E k \in 1..Len(include_patterns) :
               LET norm_pattern == RStrip(ReplaceSep(include_patterns[k]))
               IN \/ StartsWith(rel_dir_path, norm_pattern)
                  \/ StartsWith(norm_pattern, rel_dir_path)
    ELSE ~is_excluded(dir_path, exclude_patterns)

\* the .gitignore decision with the --allow-ignored test inverted
DirIgnored_inverted(dir_path, matchers, allow_ignored) ==
    IF allow_ignored /\ matchers # <<>> THEN IgnoreLoop(matchers, dir_path) ELSE "false"

\* lines 489-501: the .gitignore decision for one child directory that was kept
DirIgnored(dir_path, matchers, allow_ignored) ==
    IF ~allow_ignored /\ matchers # <<>> THEN IgnoreLoop(matchers, dir_path) ELSE "false"

\* lines 458-503: the filtering of the listed directories, in order: dirs is
\* emptied and the directories that pass are appended to it; raised tells
\* that a matcher raised, which ends the loop
RECURSIVE FilterDirs(_, _, _, _, _, _, _, _)
FilterDirs(abs_root, original_dirs, dirs, top, exclude_patterns, include_patterns, matchers, allow_ignored) ==
    IF original_dirs = <<>> THEN [raised |-> FALSE, dirs |-> dirs]
    ELSE LET d              == Head(original_dirs)
             dir_path       == join(abs_root, d)
             is_dir_ignored == DirIgnored(dir_path, matchers, allow_ignored)
         IN IF ~KeepDir(dir_path, top, exclude_patterns, include_patterns)
            THEN FilterDirs(abs_root, Tail(original_dirs), dirs, top, exclude_patterns,
                            include_patterns, matchers, allow_ignored)
            ELSE IF is_dir_ignored = "raise"
                 THEN [raised |-> TRUE, dirs |-> <<>>]
            ELSE FilterDirs(abs_root, Tail(original_dirs),
                            IF is_dir_ignored = "true" THEN dirs ELSE Append(dirs, d),
                            top, exclude_patterns, include_patterns, matchers, allow_ignored)

\* what one iteration of safe_walk's loop yields for directory path
safe_walk_dirs(path) ==
    FilterDirs(Resolve(path), DirEntry(path).dirs, <<>>, args.dir, args.exclude,
               args.include, gitignore_matchers, args.allow_ignored)

\* ------------------------------------------------------------- inputs
\* the largest --max-depth the model draws
MaxDepthArg == 2

\* where the tree is and how --dir names it: relative, relative with a
\* trailing separator, absolute below a directory called node_modules
Places ==
    { [dir |-> s_p,    cwd |-> s_sl_w, loc |-> s_sl_w_sl_p],
      [dir |-> s_p_sl, cwd |-> s_sl_w, loc |-> s_sl_w_sl_p],
      [dir |-> s_sl_w_sl_node_modules_sl_p, cwd |-> s_sl_w, loc |-> s_sl_w_sl_node_modules_sl_p] }

\* --exclude and --include are mutually exclusive (argparse group, lines 529-541);
\* an option not given is None, written <<>>
PatternArgs ==
    { [exclude |-> e, include |-> <<>>] :
          e \in {<<>>, <<s_build_sl>>, <<s_star_dot_txt>>, <<s_src>>} }
    \cup
    { [exclude |-> <<>>, include |-> i] :
          i \in {<<s_src_sl_star_dot_py>>, <<s_star_dot_py>>, <<s_src>>, <<s_build_sl, s_lib>>} }

ExtensionArgs == {<<>>, <<s_PY>>}

DepthArgs == {<<>>} \cup {<<d>> : d \in 0..MaxDepthArg}

\* the .git directories and .gitignore files around a tree at loc: none; a
\* .gitignore at the root ignoring build, and a malformed one in src; a
\* repository one level up whose .gitignore ignores the start directory; a
\* .gitignore at the root whose matcher ignores src/b.txt and raises on src/sub
IgnoreFile(base, flagged, raises, parses) ==
    [base |-> base, flagged |-> flagged, raises |-> raises, parses |-> parses]

GitSetups(loc) ==
    { [git |-> {}, ignore |-> <<>>],
      [git |-> {}, ignore |-> << IgnoreFile(loc, {join(loc, s_build)}, {}, TRUE),
                                 IgnoreFile(join(loc, s_src), {join(join(loc, s_src), s_a_dot_py)}, {}, FALSE) >>],
      [git |-> {dirname(loc)}, ignore |-> << IgnoreFile(dirname(loc), {loc}, {}, TRUE) >>],
      [git |-> {loc}, ignore |-> << IgnoreFile(loc, {join(loc, s_src_sl_b_dot_txt)},
                                               {join(loc, s_src_sl_sub)}, TRUE) >>] }

\* lines 582-587
default_excludes == <<s_node_modules_sl, s_yarn_dot_lock, s_package_lock_dot_json, s_pnpm_lock_dot_yaml>>

\* --include-all is drawn in exclude mode (it has no effect with --include,
\* line 589), --allow-ignored where a .gitignore would otherwise be loaded,
\* and the presence of pdftotext where --parse-pdf asks for it
Init ==
    /\ \E place \in Places : \E setup \in GitSetups(place.loc) : \E pat \in PatternArgs :
       \E all \in (IF pat.include = <<>> THEN BOOLEAN ELSE {FALSE}),
          allow \in (IF setup.ignore # <<>> /\ setup.git = {} THEN BOOLEAN ELSE {FALSE}),
          ext \in ExtensionArgs, depth \in DepthArgs, skip \in BOOLEAN,
          pdf \in BOOLEAN, which \in BOOLEAN :
          /\ pdf \/ which
          /\ argv = [dir |-> place.dir, extensions |-> ext, max_depth |-> depth,
                     exclude |-> pat.exclude, include |-> pat.include, include_all |-> all,
                     skip_binary |-> skip, allow_ignored |-> allow, parse_pdf |-> pdf]
          /\ env = [cwd |-> place.cwd, loc |-> place.loc, pdftotext |-> which,
                    git |-> setup.git, ignore |-> setup.ignore]
    /\ args = argv
    /\ pc = "start"
    /\ extensions = <<>>
    /\ git_root = <<>>
    /\ gitignore_matchers = <<>>
    /\ stack = <<>>
    /\ root = <<>>
    /\ files = <<>>
    /\ output = <<>>
    /\ visited = <<>>
    /\ walk_failed = FALSE
    /\ rc = <<>>
    /\ current_path = <<>>
    /\ earlier = <<>>

\* --------------------------------------------------------------- main
\* check_pdftotext_available that finds the utility whether it is there or not
check_pdftotext_always == TRUE

\* check_pdftotext_available
check_pdftotext_available == env.pdftotext

\* lines 572-578: --parse-pdf without pdftotext ends the run with 1
main_pdftotext_missing ==
    /\ pc = "start"
    /\ args.parse_pdf /\ ~check_pdftotext_available
    /\ rc' = <<1>>
    /\ pc' = "done"
    /\ UNCHANGED <<current_path, earlier, argv, args, env, extensions, git_root,
                   gitignore_matchers, stack, root, files, output, visited, walk_failed>>

\* lines 589-598: the exclude list main filters with
EffectiveExclude(a) ==
    IF a.include_all /\ a.include = <<>> THEN <<>>
    ELSE IF a.include = <<>> THEN a.exclude \o default_excludes
    ELSE a.exclude

\* lines 600-606
NormaliseExtension(ext) ==
    IF StartsWith(ext, <<".">>) THEN Lower(ext) ELSE <<".">> \o Lower(ext)

\* lines 580-640: default excludes, extensions, .gitignore matchers, and the
\* call of safe_walk, whose os.walk starts with the start directory on its stack
main_setup ==
    /\ pc = "start"
    /\ ~(args.parse_pdf /\ ~check_pdftotext_available)
    /\ args' = [args EXCEPT !.exclude = EffectiveExclude(args)]
    /\ extensions' = [k \in 1..Len(args.extensions) |-> NormaliseExtension(args.extensions[k])]
    /\ git_root' = find_git_root(args.dir)
    /\ gitignore_matchers' =
          IF ~args.allow_ignored
          THEN create_gitignore_matchers(find_all_gitignore_files(args.dir))
          ELSE <<>>
    /\ stack' = <<args.dir>>
    /\ pc' = "walk"
    /\ UNCHANGED <<current_path, earlier, argv, env, root, files, output, visited,
                   walk_failed, rc>>

\* os.walk: a directory whose listing fails is dropped without being yielded
walk_unlistable ==
    /\ pc = "walk"
    /\ stack # <<>>
    /\ ~Listable(Head(stack))
    /\ stack' = Tail(stack)
    /\ UNCHANGED <<current_path, earlier, argv, args, env, pc, extensions, git_root,
                   gitignore_matchers, root, files, output, visited, walk_failed, rc>>

\* lines 506-508: an exception in safe_walk's loop ends the loop; the handler
\* yields (top, [], []), for which main has nothing to do, and the generator ends
safe_walk_error ==
    /\ pc = "walk"
    /\ stack # <<>>
    /\ Listable(Head(stack))
    /\ safe_walk_dirs(Head(stack)).raised
    /\ walk_failed' = TRUE
    /\ stack' = <<>>
    /\ UNCHANGED <<current_path, earlier, argv, args, env, pc, extensions, git_root,
                   gitignore_matchers, root, files, output, visited, rc>>

\* line 648
current_depth(walk_root) == Count(SubSeq(walk_root, Len(args.dir) + 1, Len(walk_root)), sep)

\* line 643
NotHidden(names) == SelectSeq(names, LAMBDA d : ~StartsWith(d, <<".">>))

\* lines 455-505 and 641-657: os.walk lists the next directory, safe_walk
\* filters its subdirectories and yields, main drops the hidden ones, stops
\* at the depth limit or takes the directory's files in sorted order; os.walk
\* then puts the subdirectories main left on its stack
main_directory ==
    /\ pc = "walk"
    /\ stack # <<>>
    /\ Listable(Head(stack))
    /\ LET walk_root == Head(stack)
           yielded   == safe_walk_dirs(walk_root)
           dirs      == NotHidden(yielded.dirs)
           too_deep  == args.max_depth # <<>> /\ current_depth(walk_root) >= args.max_depth[1]
       IN /\ ~yielded.raised
          /\ visited' = Append(visited, walk_root)
          /\ root' = walk_root
          /\ IF too_deep
             THEN /\ stack' = Tail(stack)
                  /\ files' = <<>>
                  /\ pc' = "walk"
             ELSE /\ stack' = [k \in 1..Len(dirs) |-> join(walk_root, dirs[k])] \o Tail(stack)
                  /\ files' = sorted(DirEntry(walk_root).files)
                  /\ pc' = IF DirEntry(walk_root).files = <<>> THEN "walk" ELSE "files"
    /\ UNCHANGED <<current_path, earlier, argv, args, env, extensions, git_root,
                   gitignore_matchers, output, walk_failed, rc>>

\* lines 659-677: is the file printed
Emits(file, file_path) ==
    /\ ~StartsWith(file, <<".">>)
    /\ should_process_file(file_path, args.dir, extensions, args.exclude, args.include,
                           gitignore_matchers, args.allow_ignored, args.parse_pdf)
    /\ ~(args.skip_binary /\ is_binary_file(file_path))

\* lines 657-680: one iteration of the loop over the sorted files
main_file ==
    /\ pc = "files"
    /\ files # <<>>
    /\ LET file      == Head(files)
           file_path == join(root, file)
       IN output' = IF Emits(file, file_path)
                    THEN Append(output, [file  |-> file_path,
                                         lines |-> process_file(file_path, args.dir, args.parse_pdf)])
                    ELSE output
    /\ files' = Tail(files)
    /\ pc' = IF Tail(files) = <<>> THEN "walk" ELSE "files"
    /\ UNCHANGED <<current_path, earlier, argv, args, env, extensions, git_root,
                   gitignore_matchers, stack, root, visited, walk_failed, rc>>

\* line 690: the walk is over
main_return ==
    /\ pc = "walk"
    /\ stack = <<>>
    /\ rc' = <<0>>
    /\ pc' = "done"
    /\ UNCHANGED <<current_path, earlier, argv, args, env, extensions, git_root,
                   gitignore_matchers, stack, root, files, output, visited, walk_failed>>

Next ==
    \/ main_pdftotext_missing
    \/ main_setup
    \/ walk_unlistable
    \/ safe_walk_error
    \/ main_directory
    \/ main_file
    \/ main_return

Spec == Init /\ [][Next]_vars

\* ------------------------------------------------- find_git_root alone
\* the start paths find_git_root is called with, the working directories
\* they are resolved in, and the directories that may hold a .git entry
StartPaths ==
    { s_p, s_p_sl, <<".">>, <<".", ".">>, <<sep>>, s_src_sl_sub,
      join(s_sl_w_sl_p, s_src_sl_sub), s_p \o <<sep, ".", ".", sep>> \o s_lib }

WorkingDirs == { <<sep>>, s_sl_w, s_sl_w_sl_p }

GitCandidates ==
    { <<sep>>, s_sl_w, s_sl_w_sl_p, join(s_sl_w_sl_p, s_src),
      join(s_sl_w_sl_p, s_src_sl_sub), join(s_sl_w, s_lib) }

InitGit ==
    /\ \E start_path \in StartPaths, cwd \in WorkingDirs, git \in SUBSET GitCandidates :
          /\ argv = [dir |-> start_path, extensions |-> <<>>, max_depth |-> <<>>,
                     exclude |-> <<>>, include |-> <<>>, include_all |-> FALSE,
                     skip_binary |-> FALSE, allow_ignored |-> FALSE, parse_pdf |-> FALSE]
          /\ env = [cwd |-> cwd, loc |-> abspath(start_path, cwd), pdftotext |-> TRUE,
                    git |-> git, ignore |-> <<>>]
    /\ args = argv
    /\ pc = "find_git_root"
    /\ extensions = <<>>
    /\ git_root = <<>>
    /\ gitignore_matchers = <<>>
    /\ stack = <<>>
    /\ root = <<>>
    /\ files = <<>>
    /\ output = <<>>
    /\ visited = <<>>
    /\ walk_failed = FALSE
    /\ rc = <<>>
    /\ current_path = <<>>
    /\ earlier = <<>>

\* line 26
find_git_root_enter ==
    /\ pc = "find_git_root"
    /\ current_path' = Resolve(args.dir)
    /\ pc' = "loop"
    /\ UNCHANGED <<argv, args, env, extensions, git_root, gitignore_matchers, stack, root,
                   files, output, visited, walk_failed, rc, earlier>>

\* an iteration that looks for the marker in the parent before the directory itself
find_git_root_iter_parent_first(path) ==
    LET parent_path == dirname(path)
    IN IF parent_path \in env.git
       THEN [returns |-> TRUE, value |-> <<parent_path>>, current_path |-> path]
       ELSE IF path \in env.git
            THEN [returns |-> TRUE, value |-> <<path>>, current_path |-> path]
            ELSE IF parent_path = path
                 THEN [returns |-> TRUE, value |-> <<>>, current_path |-> path]
                 ELSE [returns |-> FALSE, value |-> <<>>, current_path |-> parent_path]

\* lines 29-39: one iteration of the loop: return the directory when .git
\* exists in it, None when the directory is its own parent, else climb
find_git_root_iter(path) ==
    IF path \in env.git
    THEN [returns |-> TRUE, value |-> <<path>>, current_path |-> path]
    ELSE LET parent_path == dirname(path)
         IN IF parent_path = path
            THEN [returns |-> TRUE, value |-> <<>>, current_path |-> path]
            ELSE [returns |-> FALSE, value |-> <<>>, current_path |-> parent_path]

find_git_root_loop ==
    /\ pc = "loop"
    /\ LET step == find_git_root_iter(current_path)
       IN /\ current_path' = step.current_path
          /\ git_root' = step.value
          /\ pc' = IF step.returns THEN "returned" ELSE "loop"
    /\ UNCHANGED <<argv, args, env, extensions, gitignore_matchers, stack, root,
                   files, output, visited, walk_failed, rc, earlier>>

NextGit ==
    \/ find_git_root_enter
    \/ find_git_root_loop

SpecGit == InitGit /\ [][NextGit]_vars


\* ------------------------------------------- a second run on the same tree
\* the other way of writing the same --dir: with or without a trailing separator
OtherSpelling(dir) ==
    IF EndsWith(dir, <<sep>>) THEN SubSeq(dir, 1, Len(dir) - 1) ELSE dir \o <<sep>>

\* the program is started again on the same tree, in the same working
\* directory, with the same options except for the spelling of --dir; what the
\* run before printed, and the depth it computed (line 648) for the
\* directories it visited, is kept in earlier.  The pair of runs is taken in
\* one order: first without the trailing separator, then with it.
main_again ==
    /\ pc = "done"
    /\ rc = <<0>>
    /\ earlier = <<>>
    /\ ~EndsWith(argv.dir, <<sep>>)
    /\ earlier' = << [dir    |-> argv.dir,
                      files  |-> {RelIn(Resolve(output[b].file)) : b \in 1..Len(output)},
                      depths |-> {<<RelIn(Resolve(visited[v])), current_depth(visited[v])>> :
                                     v \in 1..Len(visited)}] >>
    /\ argv' = [argv EXCEPT !.dir = OtherSpelling(argv.dir)]
    /\ args' = argv'
    /\ pc' = "start"
    /\ extensions' = <<>>
    /\ git_root' = <<>>
    /\ gitignore_matchers' = <<>>
    /\ stack' = <<>>
    /\ root' = <<>>
    /\ files' = <<>>
    /\ output' = <<>>
    /\ visited' = <<>>
    /\ walk_failed' = FALSE
    /\ rc' = <<>>
    /\ UNCHANGED <<env, current_path>>

NextTwice ==
    \/ Next
    \/ main_again

SpecTwice == Init /\ [][NextTwice]_vars

\* ---------------------------------------------------------------- claims
\* the place of an emitted file in the tree, relative to the start directory
TreeRel(file_path) == RelIn(Resolve(file_path))

Blocks == {output[b] : b \in 1..Len(output)}

StartDir == Resolve(argv.dir)

\* directory d holds path strictly below it
Below(path, d) == Under(path, d) /\ path # d

\* C1: in exclude mode, under every combination of flags, a file whose path
\* matches an exclude pattern the user gave is never emitted.
C1_UserExcludedNeverEmitted ==
    argv.include = <<>> =>
        \A b \in Blocks : ~is_excluded(b.file, argv.exclude)

\* the four ways the claim lets a relative path match an include pattern
C2_Matches(rel, pattern) ==
    IF EndsWith(pattern, <<"/">>)
    THEN StartsWith(rel, pattern)
    ELSE \/ fnmatch(rel, pattern)
         \/ fnmatch(basename(rel), pattern)
         \/ rel = pattern
         \/ StartsWith(rel, pattern \o <<"/">>)

\* C2: in include mode every emitted file's path relative to the start
\* directory matches an include pattern, and with --include src/*.py a
\* complete, unlimited walk emits src/a.py and nothing else.
C2_IncludeModeEmitsOnlyMatches ==
    /\ argv.include # <<>> =>
          \A b \in Blocks : \E k \in 1..Len(argv.include) :
              C2_Matches(TreeRel(b.file), argv.include[k])
    /\ (/\ pc = "done" /\ rc = <<0>> /\ ~walk_failed
        /\ argv.include = <<s_src_sl_star_dot_py>>
        /\ argv.max_depth = <<>>)
       => {TreeRel(b.file) : b \in Blocks} = {join(s_src, s_a_dot_py)}

C2_Witness ==
    /\ pc = "done"
    /\ argv.include = <<s_src_sl_star_dot_py>>
    /\ \E b \in Blocks : TreeRel(b.file) = join(s_src, s_a_dot_py)

\* the directories a loaded, in-scope matcher flags as ignored
FlaggedDirs ==
    {D \in UNION {gitignore_matchers[k].flagged : k \in 1..Len(gitignore_matchers)} :
        /\ IsDir(D)
        /\ \E k \in 1..Len(gitignore_matchers) :
              /\ D \in gitignore_matchers[k].flagged
              /\ Under(D, Resolve(gitignore_matchers[k].base))}

\* C3 as stated: with ignore rules enabled no file below a directory that an
\* in-scope matcher flags is ever emitted.
C3_NothingBelowFlaggedDir ==
    ~args.allow_ignored =>
        \A D \in FlaggedDirs : \A b \in Blocks : ~Below(Resolve(b.file), D)

\* C3 amended: with ignore rules enabled no file below a flagged directory
\* that lies strictly below the start directory is ever emitted, in either mode.
C3_NothingBelowFlaggedSubdir ==
    ~args.allow_ignored =>
        \A D \in FlaggedDirs :
            Below(D, StartDir) => \A b \in Blocks : ~Below(Resolve(b.file), D)

C3_Witness ==
    /\ pc = "done"
    /\ argv.include = <<s_build_sl, s_lib>>
    /\ argv.max_depth = <<>>
    /\ \E D \in FlaggedDirs : Below(D, StartDir) /\ TreeRel(D) = s_build
    /\ \E b \in Blocks : TreeRel(b.file) = join(s_lib, s_c_dot_py)

\* the number of path separators between the start directory and a path below it
SeparatorsBelowStart(path) == Len(Comps(Resolve(path))) - Len(Comps(StartDir))

\* C4: with --max-depth d no emitted file lies more than d separators below
\* the start directory and no directory deeper than d is visited.
C4_DepthLimit ==
    argv.max_depth # <<>> =>
        /\ \A b \in Blocks : SeparatorsBelowStart(b.file) <= argv.max_depth[1]
        /\ \A v \in 1..Len(visited) : SeparatorsBelowStart(visited[v]) <= argv.max_depth[1]

\* C5: with --parse-pdf every .pdf file the path filter accepts is printed
\* as the extractor's result, whatever the other flags and its bytes.
C5_PdfAlwaysExtracted ==
    [][ (/\ pc = "files"
         /\ args.parse_pdf
         /\ ~StartsWith(Head(files), <<".">>)
         /\ is_pdf_file(join(root, Head(files)))
         /\ should_process_file(join(root, Head(files)), args.dir, extensions, args.exclude,
                                args.include, gitignore_matchers, args.allow_ignored,
                                args.parse_pdf))
        => /\ Len(output') = Len(output) + 1
           /\ output'[Len(output')].file = join(root, Head(files))
           /\ \E l \in 1..Len(output'[Len(output')].lines) :
                 output'[Len(output')].lines[l] = Content("pdf") ]_vars

\* the file's first ChunkSize bytes hold a zero byte, or it cannot be opened
C6_LooksBinary(file_path) ==
    \/ ~Attr(file_path).exists
    \/ ~Attr(file_path).readable
    \/ \E offset \in Attr(file_path).nul : offset < ChunkSize

Has(b, line) == \E l \in 1..Len(b.lines) : b.lines[l] = line

\* C6 as stated: an emitted file that looks binary carries the binary placeholder.
C6_BinaryPlaceholder ==
    \A b \in Blocks :
        C6_LooksBinary(b.file) =>
            Has(b, Placeholder("<Binary file>")) /\ ~Has(b, Content("text"))

\* C6 amended: an emitted file that looks binary is never printed as decoded
\* text; it carries the binary placeholder unless it is a .pdf in PDF mode
\* (extractor result) or is missing or unreadable (their own placeholders).
C6_BinaryNeverText ==
    \A b \in Blocks :
        C6_LooksBinary(b.file) =>
            /\ ~Has(b, Content("text"))
            /\ ~(args.skip_binary)
            /\ IF ~Attr(b.file).exists THEN Has(b, Placeholder("<File not found>"))
               ELSE IF ~Attr(b.file).readable THEN Has(b, Placeholder("<Permission denied>"))
               ELSE IF args.parse_pdf /\ is_pdf_file(b.file) THEN Has(b, Content("pdf"))
               ELSE Has(b, Placeholder("<Binary file>"))

C6_Witness ==
    \E b \in Blocks :
        /\ TreeRel(b.file) = s_lib_sl_img_dot_bin
        /\ Has(b, Placeholder("<Binary file>"))

\* C7: every block is one header "// <path relative to the scan root>", one
\* content or placeholder, one blank line.
C7_BlockShape ==
    \A b \in Blocks :
        /\ Len(b.lines) = 3
        /\ b.lines[1] = Header(TreeRel(b.file))
        /\ b.lines[2].t \in {"placeholder", "text", "pdf"}
        /\ b.lines[3] = Blank

\* C8: main returns 1 exactly when --parse-pdf was given and pdftotext is
\* missing, and then nothing was walked or printed; every other run returns
\* 0, also when a directory or file failed.
C8_ExitCode ==
    pc = "done" =>
        /\ rc \in {<<0>>, <<1>>}
        /\ rc = <<1>> <=> (argv.parse_pdf /\ ~env.pdftotext)
        /\ rc = <<1>> => (output = <<>> /\ visited = <<>>)

C8_Witness == pc = "done" /\ rc = <<1>> /\ argv.parse_pdf /\ ~env.pdftotext

\* C9: an error while the walk handles one directory costs that directory
\* alone: every subdirectory of the start directory that the filters keep,
\* that can be listed and that the depth limit allows is still visited.
C9_WalkContinuesAfterError ==
    pc = "done" /\ rc = <<0>> =>
        \A k \in 1..Len(DirEntry(args.dir).dirs) :
            LET d        == DirEntry(args.dir).dirs[k]
                dir_path == join(StartDir, d)
            IN (/\ KeepDir(dir_path, args.dir, args.exclude, args.include)
                /\ DirIgnored(dir_path, gitignore_matchers, args.allow_ignored) = "false"
                /\ ~StartsWith(d, <<".">>)
                /\ Listable(dir_path)
                /\ argv.max_depth = <<>>)
               => \E v \in 1..Len(visited) : Resolve(visited[v]) = dir_path

\* C10: with the default excludes active nothing under node_modules and no
\* lock file is emitted, and app.js at the scan root is emitted when no
\* extension or depth limit stands in its way.
C10_DefaultExcludes ==
    (argv.include = <<>> /\ ~argv.include_all) =>
        /\ \A b \in Blocks :
              /\ ~StartsWith(TreeRel(b.file), s_node_modules_sl)
              /\ basename(b.file) \notin {s_yarn_dot_lock, s_package_lock_dot_json, s_pnpm_lock_dot_yaml}
        /\ (pc = "done" /\ rc = <<0>> /\ argv.extensions = <<>> /\ argv.max_depth = <<>>)
           => \E b \in Blocks : TreeRel(b.file) = s_app_dot_js

\* the directories at or above an absolute, normalised path
Ancestors(path) ==
    { <<sep>> \o JoinParts(SubSeq(Comps(path), 1, k)) : k \in 0..Len(Comps(path)) }

MarkedAbove == Ancestors(StartDir) \cap env.git

C11_Nearest ==
    /\ MarkedAbove = {} => git_root = <<>>
    /\ MarkedAbove # {} =>
          git_root = << CHOOSE m \in MarkedAbove : \A n \in MarkedAbove : Len(n) <= Len(m) >>
    /\ git_root = find_git_root(argv.dir)

\* C11: find_git_root returns for every start path (an iteration that does not
\* return leaves a current_path with fewer components, so the loop runs at
\* most once per component of the start path and once more), and what it
\* returns is the nearest directory at or above the start path that holds
\* .git, or None when no directory up to the filesystem root holds it
C11_FindGitRoot ==
    /\ pc = "returned" => C11_Nearest
    /\ pc = "loop" =>
          LET step == find_git_root_iter(current_path)
          IN step.returns \/ Len(Comps(step.current_path)) < Len(Comps(current_path))

\* the loop climbed past a start directory without .git to the nearer of two marked ancestors
C11_Witness ==
    /\ pc = "returned"
    /\ Cardinality(MarkedAbove) >= 2
    /\ StartDir \notin env.git
    /\ git_root # <<>>
    /\ git_root[1] # <<sep>>

\* the files of the tree, by their path relative to the start directory
TreeFiles ==
    UNION { { join(Tree[i].path, Tree[i].files[k]) : k \in 1..Len(Tree[i].files) } :
            i \in 1..Len(Tree) }

\* the path os.walk gives a file of the tree
WalkPath(rel) == join(argv.dir, rel)

\* the file and the directories between it and the start directory
Chain(rel) == { JoinParts(SubSeq(Split(rel), 1, k)) : k \in 1..Len(Split(rel)) }

\* a file the walk has no other reason to leave out: no hidden name on its
\* path, nothing on its path flagged by (or failing in) a loaded matcher, every
\* directory above it listable, and within the depth limit
C12_Eligible(rel) ==
    /\ \A k \in 1..Len(Split(rel)) : ~StartsWith(Split(rel)[k], <<".">>)
    /\ \A c \in Chain(rel) : \A m \in 1..Len(gitignore_matchers) :
          MatcherCall(gitignore_matchers[m], Resolve(WalkPath(c))) = "false"
    /\ \A c \in Chain(rel) \ {rel} : Listable(WalkPath(c))
    /\ argv.max_depth # <<>> => Len(Split(rel)) <= argv.max_depth[1]

\* C12: in include mode, once the walk is over, every eligible file that
\* is_included accepts has been emitted: safe_walk pruned none of its ancestors
C12_IncludedFilesReached ==
    (/\ pc = "done" /\ rc = <<0>> /\ ~walk_failed
     /\ argv.include # <<>>
     /\ argv.extensions = <<>> /\ ~argv.skip_binary)
    => \A rel \in TreeFiles :
          (C12_Eligible(rel) /\ is_included(WalkPath(rel), argv.include, argv.dir, env.cwd))
          => \E b \in Blocks : TreeRel(b.file) = rel

\* C13: for the same tree, filters and --max-depth, a run with the start
\* directory written with a trailing separator and a run with it written
\* without one emit the same files, and compute the same depth for every
\* directory both of them visit
C13_SpellingIndependent ==
    (pc = "done" /\ rc = <<0>> /\ earlier # <<>>)
    => /\ {TreeRel(b.file) : b \in Blocks} = earlier[1].files
       /\ argv.max_depth # <<>> =>
             \A v \in 1..Len(visited) : \A e \in earlier[1].depths :
                 e[1] = TreeRel(visited[v]) => e[2] = current_depth(visited[v])

====
